---- MODULE Spec2Model ----
\* Quarto bitboard (src/src/board.rs), its printable bridge
\* (src/src/printable.rs), the strategies (src/src/strategy.rs) and the game
\* loop (src/src/game.rs).
\*
\* The u128 `items` of a Board is modelled as its 16 bytes: items[k] is the
\* byte at bit offset 8*k, so cell index i of the board is byte 15 - i.
\* Additions on the u128 are carried from byte to byte (add_u128), shifts and
\* masks are computed per byte.
EXTENDS Integers, Naturals, Sequences, FiniteSets, TLC

\* ---------------------------------------------------------------- bounds
\* Board cells the callers of put_piece address (0..MaxIndex, next to the
\* out-of-range indices), and the number of put_piece calls of one run.
MaxIndex == 2
MaxCalls == 3
\* The lists handed to the bridge hold their Some(piece) entries within
\* MaxWindow consecutive positions.
MaxWindow == 3
\* A caller filling the board places its first MaxFree pieces in any order
\* on any cells.
MaxFree == 1
\* The random indices of the first MaxRand turns of a game are any index of
\* the list; those of the later turns are 0.
MaxRand == 1
\* The put_piece calls of a game are counted up to MaxTurns.
MaxTurns == 16

\* ------------------------------------------------------------- constants
PIECE_SIZE == 8
U8_MAX == 255
LAST_CELL == 15
BOARD_LEN == 16

Bytes == 0..15

\* ------------------------------------------------------ bit arithmetic
\* x & y on naturals
RECURSIVE BitAnd(_, _)
BitAnd(x, y) ==
    IF x = 0 \/ y = 0 THEN 0
    ELSE (x % 2) * (y % 2) + 2 * BitAnd(x \div 2, y \div 2)

\* self.items += v << (PIECE_SIZE * k), for v < 2^16: the sum is carried into
\* the higher bytes; a carry out of byte 15 overflows the u128.
RECURSIVE add_u128(_, _, _)
add_u128(b, k, v) ==
    IF v = 0 THEN [items |-> b, overflow |-> FALSE]
    ELSE IF k > LAST_CELL THEN [items |-> b, overflow |-> TRUE]
    ELSE LET s == b[k] + v
         IN  add_u128([b EXCEPT ![k] = s % (2 ^ PIECE_SIZE)], k + 1,
                      s \div (2 ^ PIECE_SIZE))

\* ------------------------------------------------------------ the board
\* Board::new
new == [k \in Bytes |-> 0]

\* Board::is_empty reading the byte at `index` instead of 15 - index.
is_empty_unmirrored(b, index) ==
    IF index > 15 THEN FALSE
    ELSE b[index] % 2 = 0

\* Board::is_empty: items & (1 << (15 - index) * PIECE_SIZE) == 0, bit 0 of
\* byte 15 - index.
is_empty(b, index) ==
    IF index > 15 THEN FALSE
    ELSE b[15 - index] % 2 = 0

\* The bits of items from bit PIECE_SIZE * p + 4 on, as far as the mask of a
\* piece number below 2^12 reaches.
above_nibble(b, p) ==
    (b[p] \div 16) + 16 * (IF p < LAST_CELL THEN b[p + 1] ELSE 0)

\* Board::valid_piece, without the range check on the piece number: the mask
\* of a piece above 15 reaches into the next byte, and is cut off at the top
\* of the u128.
valid_piece_unchecked(b, piece) ==
    ~ \E p \in Bytes :
        /\ b[p] % 2 # 0
        /\ LET mask == IF p < LAST_CELL THEN piece ELSE piece % 16
           IN  BitAnd(above_nibble(b, p), mask) = mask

\* Board::valid_piece: for p in 0..16, the piece is rejected when byte p has
\* its existence bit (bit 0) set and items & piece_mask == piece_mask, the
\* mask being the piece number shifted to bits 4..7 of byte p: the attribute
\* nibble of the byte has every bit of the piece number.
valid_piece(b, piece) ==
    IF piece > 15 THEN FALSE
    ELSE ~ \E p \in Bytes :
            /\ b[p] % 2 # 0
            /\ BitAnd(b[p] \div 16, piece) = piece

\* Board::put_piece. The occupancy test is
\* (1 << PIECE_SIZE * bit_index + 1) & self.items: bit 1 of the target byte.
\* `items` of the result is the wrapped sum, `overflow` tells that the
\* addition overflowed the u128.
put_piece(b, piece, index) ==
    IF index > 15 \/ ~ valid_piece(b, piece)
    THEN [ret |-> FALSE, items |-> b, overflow |-> FALSE]
    ELSE LET bit_index == 15 - index
         IN  IF (b[bit_index] \div 2) % 2 # 0
             THEN [ret |-> FALSE, items |-> b, overflow |-> FALSE]
             ELSE LET sum == add_u128(b, bit_index, 1 + piece * 16)
                  IN  [ret |-> TRUE, items |-> sum.items,
                       overflow |-> sum.overflow]

\* ------------------------------------------------------------- the lines
\* A mask is the set of the bit positions 0..127 it has set. The masks of the
\* board are sums of distinct powers of two.
ROW == {0, PIECE_SIZE, 2 * PIECE_SIZE, 3 * PIECE_SIZE}
COLUMN == {0, 4 * PIECE_SIZE, 8 * PIECE_SIZE, 12 * PIECE_SIZE}
DIAG_DOWN == {0, 5 * PIECE_SIZE, 10 * PIECE_SIZE, 15 * PIECE_SIZE}
DIAG_UP == {3 * PIECE_SIZE, 6 * PIECE_SIZE, 9 * PIECE_SIZE, 12 * PIECE_SIZE}

\* mask << n on a u128
shl(mask, n) == {m + n : m \in mask} \cap (0..127)

BOARD_MASK ==
    COLUMN \cup shl(COLUMN, PIECE_SIZE) \cup shl(COLUMN, PIECE_SIZE * 2)
        \cup shl(COLUMN, PIECE_SIZE * 3)

\* Bit n of items
item_bit(b, n) == (b[n \div PIECE_SIZE] \div (2 ^ (n % PIECE_SIZE))) % 2 = 1

\* items & mask == mask
and_is_mask(b, mask) == \A n \in mask : item_bit(b, n)

\* items & mask == 0
and_is_zero(b, mask) == \A n \in mask : ~ item_bit(b, n)

\* Board::row
row(b, r) ==
    IF r > 3 THEN FALSE
    ELSE and_is_mask(b, shl(ROW, 4 * PIECE_SIZE * (3 - r)))

\* Board::column
column(b, c) ==
    IF c > 3 THEN FALSE
    ELSE and_is_mask(b, shl(COLUMN, PIECE_SIZE * (3 - c)))

\* Board::winning_row without the test that the row is complete.
winning_row_incomplete(b, r) ==
    IF r > 3 THEN FALSE
    ELSE \E t \in 4..7 :
            LET row_mask == shl(ROW, 4 * PIECE_SIZE * (3 - r) + t)
            IN  and_is_mask(b, row_mask) \/ and_is_zero(b, row_mask)

\* Board::winning_row
winning_row(b, r) ==
    IF ~ row(b, r) THEN FALSE
    ELSE \E t \in 4..7 :
            LET row_mask == shl(ROW, 4 * PIECE_SIZE * (3 - r) + t)
            IN  and_is_mask(b, row_mask) \/ and_is_zero(b, row_mask)

\* Board::winning_column
winning_column(b, c) ==
    IF ~ column(b, c) THEN FALSE
    ELSE \E t \in 4..7 :
            LET col_mask == shl(COLUMN, PIECE_SIZE * (3 - c) + t)
            IN  and_is_mask(b, col_mask) \/ and_is_zero(b, col_mask)

\* Board::winning_diagonal without the tests that the diagonal is complete.
winning_diagonal_incomplete(b) ==
    \E t \in 4..7 :
        LET diag_up_mask == shl(DIAG_UP, t)
            diag_down_mask == shl(DIAG_DOWN, t)
        IN  \/ and_is_mask(b, diag_up_mask) \/ and_is_zero(b, diag_up_mask)
            \/ and_is_mask(b, diag_down_mask) \/ and_is_zero(b, diag_down_mask)

\* Board::winning_diagonal
winning_diagonal(b) ==
    \E t \in 4..7 :
        LET diag_up_mask == shl(DIAG_UP, t)
            diag_down_mask == shl(DIAG_DOWN, t)
        IN  \/ /\ and_is_mask(b, DIAG_UP)
               /\ and_is_mask(b, diag_up_mask) \/ and_is_zero(b, diag_up_mask)
            \/ /\ and_is_mask(b, DIAG_DOWN)
               /\ and_is_mask(b, diag_down_mask) \/ and_is_zero(b, diag_down_mask)

\* Board::has_winner without the diagonals.
has_winner_straight(b) ==
    \E i \in 0..3 : winning_row(b, i) \/ winning_column(b, i)

\* Board::has_winner
has_winner(b) ==
    \/ \E i \in 0..3 : winning_row(b, i) \/ winning_column(b, i)
    \/ winning_diagonal(b)

\* Board::board_full
board_full(b) == and_is_mask(b, BOARD_MASK)

\* Board::game_over
game_over(b) == has_winner(b) \/ board_full(b)

\* ------------------------------------------------------------ the pieces
\* A Piece is the record of its four attributes; an Option<Piece> is the
\* sequence <<>> (None) or <<piece>> (Some(piece)).
Piece == [hole : BOOLEAN, square : BOOLEAN, high : BOOLEAN, dark : BOOLEAN]
None == << >>
Some(x) == << x >>

B2N(x) == IF x THEN 1 ELSE 0

\* Piece::from_u8 without the test of the existence bit.
from_u8_unguarded(input) ==
    Some([hole   |-> BitAnd(input, 128) = 128,
          square |-> BitAnd(input, 64) = 64,
          high   |-> BitAnd(input, 32) = 32,
          dark   |-> BitAnd(input, 16) = 16])

\* Piece::from_u8
from_u8(input) ==
    IF BitAnd(input, 1) = 0 THEN None
    ELSE Some([hole   |-> BitAnd(input, 128) = 128,
               square |-> BitAnd(input, 64) = 64,
               high   |-> BitAnd(input, 32) = 32,
               dark   |-> BitAnd(input, 16) = 16])

\* Piece::to_number with the shifts of hole and square exchanged.
to_number_swapped(piece) ==
    B2N(piece.hole) * 4 + B2N(piece.square) * 8 + B2N(piece.high) * 2
        + B2N(piece.dark)

\* Piece::to_number
to_number(piece) ==
    B2N(piece.hole) * 8 + B2N(piece.square) * 4 + B2N(piece.high) * 2
        + B2N(piece.dark)

\* The cell byte of a piece number with the number one bit too low.
cell_byte_low(number) == (number * 8 + 1) % (U8_MAX + 1)

\* The cell byte of a piece number, (number << 4) + 1 on a u8: the existence
\* bit and the number in bits 4..7.
cell_byte(number) == (number * 16 + 1) % (U8_MAX + 1)

\* Piece::to_u8, the number from_printable hands to put_piece: the number of
\* the piece between 0 and 15.
to_u8(piece) == to_number(piece)

\* -------------------------------------------------------- the strategies
\* The numbers 0..15 in ascending order, as a scan goes through them.
scan == [n \in 1..BOARD_LEN |-> n - 1]

\* Board::valid_pieces: the piece numbers 0..15 that valid_piece accepts, in
\* ascending order.
valid_pieces(b) == SelectSeq(scan, LAMBDA p : valid_piece(b, p))

\* Board::empty_spaces: the indices 0..15 that is_empty accepts, in
\* ascending order.
empty_spaces(b) == SelectSeq(scan, LAMBDA i : is_empty(b, i))

\* The strategies of the players of a game. NaiveStrategy chooses pieces and
\* cells with the code of DumbStrategy.
Strategies == {"DumbStrategy", "DeterministicStrategy"}

\* The number of pieces on the board: the turns a game has played.
placed(b) == Cardinality({k \in Bytes : b[k] % 2 = 1})

\* The values fastrand::usize(..len) is followed for, in turn n of a game.
fastrand_usize(len, n) == {i \in 0..(len - 1) : n < MaxRand \/ i = 0}

\* What a strategy makes of a list: None when it is empty; its first entry
\* (DeterministicStrategy) or a random entry (DumbStrategy). The result is
\* the set of the Option<u8> values the call can return.
pick(strategy, list, n) ==
    IF Len(list) = 0 THEN {None}
    ELSE IF strategy = "DeterministicStrategy" THEN {Some(list[1])}
    ELSE {Some(list[i + 1]) : i \in fastrand_usize(Len(list), n)}

\* Strategy::get_piece choosing the last entry where DeterministicStrategy
\* chooses the first.
get_piece_last(strategy, b) ==
    LET list == valid_pieces(b)
    IN  IF Len(list) = 0 THEN {None}
        ELSE IF strategy = "DeterministicStrategy"
             THEN {Some(list[Len(list)])}
             ELSE pick(strategy, list, placed(b))

\* Strategy::get_piece
get_piece(strategy, b) == pick(strategy, valid_pieces(b), placed(b))

\* Strategy::get_move; the piece is ignored
get_move(strategy, b, piece) == pick(strategy, empty_spaces(b), placed(b))

\* The players of a game that are no ComputerPlayer. A ScriptPlayer gives
\* the pieces in ascending order and puts piece p on cell DrawCells[p + 1];
\* an AnyPlayer answers with Some of any number a caller of put_piece
\* addresses. Neither ever answers None.
DrawCells == << 0, 1, 2, 15, 11, 5, 4, 12, 8, 7, 6, 10, 14, 3, 13, 9 >>

SomePlayers == {"ScriptPlayer", "AnyPlayer"}

AnyAnswers == {Some(x) : x \in 0..MaxIndex}

\* Player::get_piece: a ComputerPlayer hands the call to its strategy.
player_get_piece(player, b) ==
    IF player = "ScriptPlayer" THEN {Some(placed(b) % BOARD_LEN)}
    ELSE IF player = "AnyPlayer" THEN AnyAnswers
    ELSE get_piece(player, b)

\* Player::get_move
player_get_move(player, b, piece) ==
    IF player = "ScriptPlayer" THEN {Some(DrawCells[(piece % BOARD_LEN) + 1])}
    ELSE IF player = "AnyPlayer" THEN AnyAnswers
    ELSE get_move(player, b, piece)

\* ------------------------------------------------------------ the bridge
\* PrintableBoard::from_list: Option<PrintableBoard>
from_list(list) ==
    IF Len(list) # 16 THEN None ELSE Some(list)

\* PrintableBoard::from_board: for shift in (0..16).rev(), the byte at
\* PIECE_SIZE * shift is decoded and pushed.
from_board(b) == [n \in 1..16 |-> from_u8(b[16 - n])]

\* The loop of Board::from_printable, dropping a piece put_piece rejects
\* instead of returning the Err.
RECURSIVE from_printable_loop_drop(_, _, _)
from_printable_loop_drop(list, i, board) ==
    IF i > Len(list) THEN [ok |-> TRUE, items |-> board]
    ELSE IF list[i] = None THEN from_printable_loop_drop(list, i + 1, board)
    ELSE from_printable_loop_drop(list, i + 1,
                                  put_piece(board, to_u8(list[i][1]), i - 1).items)

\* The loop of Board::from_printable from entry i (1-based) on.
RECURSIVE from_printable_loop(_, _, _)
from_printable_loop(list, i, board) ==
    IF i > Len(list) THEN [ok |-> TRUE, items |-> board]
    ELSE IF list[i] = None THEN from_printable_loop(list, i + 1, board)
    ELSE LET r == put_piece(board, to_u8(list[i][1]), i - 1)
         IN  IF ~ r.ret THEN [ok |-> FALSE, items |-> new]
             ELSE from_printable_loop(list, i + 1, r.items)

\* Board::from_printable: Result<Board, &str>; `items` is meaningful when ok.
from_printable(list) ==
    IF Len(list) # 16 THEN [ok |-> FALSE, items |-> new]
    ELSE from_printable_loop(list, 1, new)

\* ----------------------------------------------------------------- state
VARIABLES
    items,            \* Board.items of the board under test
    overflow_checks,  \* whether the build panics on integer overflow: "on"
                      \* (debug profile), "off" (release profile), or
                      \* "unknown" while no addition has overflowed
    panicked,         \* a put_piece call panicked
    calls,            \* put_piece calls made
    last,             \* arguments and return value of the last put_piece call
    vec,              \* the Vec<Option<Piece>> handed to the bridge
    pboard,           \* result of PrintableBoard::from_list(vec)
    conv,             \* result of Board::from_printable
    back,             \* PrintableBoard::from_board of the converted board
    stage,            \* how far the bridge conversions went
    codec,            \* a Piece or a byte on its way through to_number and
                      \* from_u8
    query,            \* the last query made of the board, and its answer
    players,          \* QuartoGame.players: the strategy of either player
    current,          \* QuartoGame.current
    result,           \* what play_without_call returned, "running" before
    fill              \* the pieces and the cells a caller filling the board
                      \* has not handed to put_piece yet

vars == << items, overflow_checks, panicked, calls, last,
           vec, pboard, conv, back, stage,
           codec, query, players, current, result, fill >>

boardVars == << items, overflow_checks, panicked, calls, last >>
bridgeVars == << vec, pboard, conv, back, stage >>
codecVars == << codec, query >>
gameVars == << players, current, result >>

NoCall == [piece |-> 0, index |-> 0, ret |-> "none"]
NoConv == [ok |-> FALSE, items |-> new]
NoCodec == [stage |-> "idle", piece |-> None, number |-> 0, byte |-> 0,
            decoded |-> None]
NoQuery == [op |-> "none", arg |-> 0, ret |-> FALSE]
NoFill == [pieces |-> {}, cells |-> {}]
NoResult == [kind |-> "idle", player |-> 0]

PieceInputs == 0..15 \cup {16, U8_MAX}
IndexInputs == 0..MaxIndex \cup {16, U8_MAX}

BridgeIdle ==
    /\ vec = << >>
    /\ pboard = None
    /\ conv = NoConv
    /\ back = << >>
    /\ stage = "idle"

CodecIdle ==
    /\ codec = NoCodec
    /\ query = NoQuery

GameIdle ==
    /\ players = << >>
    /\ current = 0
    /\ result = NoResult

FillIdle == fill = NoFill

Init ==
    /\ items = new
    /\ overflow_checks = "unknown"
    /\ panicked = FALSE
    /\ calls = 0
    /\ last = NoCall
    /\ BridgeIdle
    /\ CodecIdle
    /\ GameIdle
    /\ FillIdle

\* The call board.put_piece(piece, index) on the board under test. When the
\* addition overflows, a build with overflow checks panics before the
\* assignment, a build without them stores the wrapped sum; which build runs
\* shows at the first overflow.
PutPieceOn(piece, index) ==
    LET r == put_piece(items, piece, index)
    IN  IF r.overflow
        THEN \E checks \in {"on", "off"} :
             /\ overflow_checks \in {"unknown", checks}
             /\ overflow_checks' = checks
             /\ panicked' = (checks = "on")
             /\ items' = IF checks = "on" THEN items ELSE r.items
             /\ last' = [piece |-> piece, index |-> index,
                         ret |-> IF checks = "on" THEN "panic" ELSE "true"]
        ELSE /\ panicked' = FALSE
             /\ items' = r.items
             /\ last' = [piece |-> piece, index |-> index,
                         ret |-> IF r.ret THEN "true" ELSE "false"]
             /\ UNCHANGED overflow_checks

\* The call, counted.
PutPieceCall(piece, index) ==
    /\ PutPieceOn(piece, index)
    /\ calls' = calls + 1

\* One call of a run of put_piece calls. A rejected call returns before the
\* addition and leaves the board as it was, so a run is followed up to its
\* first rejected call: the calls after it meet the boards that the accepted
\* calls reach.
PutPiece(piece, index) ==
    /\ ~ panicked
    /\ calls < MaxCalls
    /\ last.ret # "false"
    /\ PutPieceCall(piece, index)
    /\ UNCHANGED << bridgeVars, codecVars, gameVars, fill >>

Next == \E piece \in PieceInputs, index \in IndexInputs : PutPiece(piece, index)

Spec == Init /\ [][Next]_vars

\* ------------------------------------------------- the bridge, as a run
OptionPiece == {None} \cup {Some(p) : p \in Piece}

\* Lengths of the lists: 16 and the lengths around it, and the empty list.
ListLens == {0, BOARD_LEN - 1, BOARD_LEN, BOARD_LEN + 1}

\* Positions before the window of a list of 16 entries: the window lies at
\* the first cells, at the start of a later row, or at the last cells. The
\* lists of another length have it at their head.
Offsets == {0, 4, 8, BOARD_LEN - MaxWindow}

\* The list of length len that holds the entries w behind position off and
\* None elsewhere.
ListOf(len, off, w) ==
    [k \in 1..len |->
        IF k > off /\ k <= off + MaxWindow THEN w[k - off] ELSE None]

BoardIdle ==
    /\ items = new
    /\ overflow_checks = "unknown"
    /\ panicked = FALSE
    /\ calls = 0
    /\ last = NoCall

InitBridge ==
    /\ BoardIdle
    /\ \E len \in ListLens, off \in Offsets, w \in [1..MaxWindow -> OptionPiece] :
          /\ len # BOARD_LEN => off = 0
          /\ vec = ListOf(len, off, w)
    /\ pboard = None
    /\ conv = NoConv
    /\ back = << >>
    /\ stage = "input"
    /\ CodecIdle
    /\ GameIdle
    /\ FillIdle

\* PrintableBoard::from_list(vec)
FromList ==
    /\ stage = "input"
    /\ pboard' = from_list(vec)
    /\ stage' = "listed"
    /\ UNCHANGED << vec, conv, back, boardVars, codecVars, gameVars, fill >>

\* Board::from_printable(&pboard), for the pboard from_list returned
FromPrintable ==
    /\ stage = "listed"
    /\ pboard # None
    /\ conv' = from_printable(pboard[1])
    /\ stage' = "converted"
    /\ UNCHANGED << vec, pboard, back, boardVars, codecVars, gameVars, fill >>

\* PrintableBoard::from_board(board).items(), for the board of Ok(board)
FromBoard ==
    /\ stage = "converted"
    /\ conv.ok
    /\ back' = from_board(conv.items)
    /\ stage' = "back"
    /\ UNCHANGED << vec, pboard, conv, boardVars, codecVars, gameVars, fill >>

NextBridge == FromList \/ FromPrintable \/ FromBoard

SpecBridge == InitBridge /\ [][NextBridge]_vars

\* --------------------------------------------- pieces and bytes, as a run
ByteInputs == 0..U8_MAX

\* A run starts from a Piece, or from a byte as from_board reads it off the
\* board; the board is the new board.
InitCodec ==
    /\ BoardIdle
    /\ BridgeIdle
    /\ GameIdle
    /\ FillIdle
    /\ query = NoQuery
    /\ \/ \E p \in Piece :
            codec = [stage |-> "piece", piece |-> Some(p), number |-> 0,
                     byte |-> 0, decoded |-> None]
       \/ \E input \in ByteInputs :
            codec = [stage |-> "byte", piece |-> None, number |-> 0,
                     byte |-> input, decoded |-> None]

\* piece.to_number()
ToNumber ==
    /\ codec.stage = "piece"
    /\ query = NoQuery
    /\ codec' = [codec EXCEPT !.stage = "number",
                              !.number = to_number(codec.piece[1])]
    /\ UNCHANGED << query, boardVars, bridgeVars, gameVars, fill >>

\* The byte of the piece number: (number << 4) + 1.
CellByte ==
    /\ codec.stage = "number"
    /\ query = NoQuery
    /\ codec' = [codec EXCEPT !.stage = "byte",
                              !.byte = cell_byte(codec.number)]
    /\ UNCHANGED << query, boardVars, bridgeVars, gameVars, fill >>

\* Piece::from_u8(byte)
FromU8 ==
    /\ codec.stage = "byte"
    /\ query = NoQuery
    /\ codec' = [codec EXCEPT !.stage = "decoded",
                              !.decoded = from_u8(codec.byte)]
    /\ UNCHANGED << query, boardVars, bridgeVars, gameVars, fill >>

\* board.put_piece(piece.to_number(), index) on the new board, as in
\* test_put_valid_piece.
PlaceNumber(index) ==
    /\ codec.stage = "number"
    /\ query = NoQuery
    /\ PutPieceCall(codec.number, index)
    /\ codec' = [codec EXCEPT !.stage = "placed"]
    /\ UNCHANGED << query, bridgeVars, gameVars, fill >>

\* board.is_empty(index), on the new board and on the board with the piece
IsEmpty(index) ==
    /\ codec.stage \in {"number", "placed"}
    /\ query = NoQuery
    /\ query' = [op |-> "is_empty", arg |-> index,
                 ret |-> is_empty(items, index)]
    /\ UNCHANGED << codec, boardVars, bridgeVars, gameVars, fill >>

NextCodec ==
    \/ ToNumber
    \/ CellByte
    \/ FromU8
    \/ \E index \in 0..LAST_CELL : PlaceNumber(index)
    \/ \E index \in ByteInputs : IsEmpty(index)

SpecCodec == InitCodec /\ [][NextCodec]_vars

\* ------------------------------------------------ the lines, as queries
\* The cells of the board are numbered row by row: cell i lies in row
\* i / 4 and column i % 4.
RowCells(r) == {4 * r + j : j \in 0..3}
ColumnCells(c) == {c + 4 * j : j \in 0..3}
DownCells == {5 * j : j \in 0..3}
UpCells == {3 * j : j \in 1..4}
Lines ==
    {RowCells(r) : r \in 0..3} \cup {ColumnCells(c) : c \in 0..3}
        \cup {DownCells, UpCells}

\* The elements of a set of numbers in ascending order.
RECURSIVE Ascending(_)
Ascending(S) ==
    IF S = {} THEN << >>
    ELSE LET m == CHOOSE x \in S : \A y \in S : x <= y
         IN  << m >> \o Ascending(S \ {m})

\* The board after board.put_piece(pieces[j], cells[j]) for j from n on.
RECURSIVE place_all(_, _, _, _)
place_all(b, pieces, cells, n) ==
    IF n > Len(pieces) THEN b
    ELSE place_all(put_piece(b, pieces[n], cells[n]).items, pieces, cells,
                   n + 1)

\* The boards asked: some cells of one line hold pieces, put there by
\* put_piece on the new board, the lower piece number into the lower cell;
\* put_piece accepts each of these calls.
InitLines ==
    /\ \E line \in Lines, P \in SUBSET (0..15) :
          /\ Cardinality(P) <= Cardinality(line)
          /\ \E C \in SUBSET line :
                /\ Cardinality(C) = Cardinality(P)
                /\ items = place_all(new, Ascending(P), Ascending(C), 1)
    /\ overflow_checks = "unknown"
    /\ panicked = FALSE
    /\ calls = 0
    /\ last = NoCall
    /\ BridgeIdle
    /\ CodecIdle
    /\ GameIdle
    /\ FillIdle

LineInputs == 0..3 \cup {4, U8_MAX}

Ask(op, arg, ret) ==
    /\ query = NoQuery
    /\ query' = [op |-> op, arg |-> arg, ret |-> ret]
    /\ UNCHANGED << codec, boardVars, bridgeVars, gameVars, fill >>

\* board.winning_row(r)
WinningRow(r) == Ask("winning_row", r, winning_row(items, r))

\* board.winning_column(c)
WinningColumn(c) == Ask("winning_column", c, winning_column(items, c))

\* board.winning_diagonal()
WinningDiagonal == Ask("winning_diagonal", 0, winning_diagonal(items))

\* board.has_winner()
HasWinner == Ask("has_winner", 0, has_winner(items))

\* board.board_full()
BoardFull == Ask("board_full", 0, board_full(items))

\* board.game_over()
GameOver == Ask("game_over", 0, game_over(items))

NextLines ==
    \/ \E r \in LineInputs : WinningRow(r)
    \/ \E c \in LineInputs : WinningColumn(c)
    \/ WinningDiagonal
    \/ HasWinner
    \/ BoardFull
    \/ GameOver

SpecLines == InitLines /\ [][NextLines]_vars

\* --------------------------------------------------- filling the board
\* A caller places the 16 pieces on the 16 cells of the new board, each
\* piece and each cell once.
InitFill ==
    /\ BoardIdle
    /\ BridgeIdle
    /\ CodecIdle
    /\ GameIdle
    /\ fill = [pieces |-> 0..15, cells |-> 0..15]

Lowest(S) == CHOOSE x \in S : \A y \in S : x <= y

\* board.put_piece(piece, index) for a piece and a cell not handed over
\* before. The first MaxFree placements are any piece on any cell; the
\* later ones take the lowest piece left and the lowest cell left. The fill
\* is followed up to its first rejected call.
Place(piece, index) ==
    /\ ~ panicked
    /\ last.ret # "false"
    /\ query = NoQuery
    /\ piece \in fill.pieces
    /\ index \in fill.cells
    /\ calls >= MaxFree =>
            (piece = Lowest(fill.pieces) /\ index = Lowest(fill.cells))
    /\ PutPieceCall(piece, index)
    /\ fill' = [pieces |-> fill.pieces \ {piece},
                cells |-> fill.cells \ {index}]
    /\ UNCHANGED << query, bridgeVars, codec, gameVars >>

NextFill ==
    \/ \E piece \in 0..15, index \in 0..15 : Place(piece, index)
    \/ BoardFull

SpecFill == InitFill /\ [][NextFill]_vars

\* ------------------------------------------- calls after the game is over
\* The boards on which the game is over: the board the game of two
\* DeterministicStrategy players ends on (pieces 0 to 3 in row 0), and the
\* board after put_piece(i, i) for every i.
OverBoards ==
    { place_all(new, << 0, 1, 2, 3 >>, << 0, 1, 2, 3 >>, 1),
      place_all(new, [n \in 1..BOARD_LEN |-> n - 1],
                [n \in 1..BOARD_LEN |-> n - 1], 1) }

InitOver ==
    /\ items \in OverBoards
    /\ overflow_checks = "unknown"
    /\ panicked = FALSE
    /\ calls = 0
    /\ last = NoCall
    /\ BridgeIdle
    /\ CodecIdle
    /\ GameIdle
    /\ FillIdle

\* Further put_piece calls on such a board.
SpecOver == InitOver /\ [][Next]_vars

\* ------------------------------------------------- a player, as queries
\* The strategies a ComputerPlayer is built with in the tests of player.rs.
AllStrategies == Strategies \cup {"NaiveStrategy"}

\* A ComputerPlayer with one of the strategies, and a board a caller fills.
InitPlayer ==
    /\ BoardIdle
    /\ BridgeIdle
    /\ CodecIdle
    /\ fill = [pieces |-> 0..15, cells |-> 0..15]
    /\ players \in [1..1 -> AllStrategies]
    /\ current = 0
    /\ result = NoResult

\* An Option<u8> as the answer of a query: ret tells Some from None, arg is
\* the value of Some.
Answer(op, option) ==
    [op |-> op, arg |-> IF option = None THEN 0 ELSE option[1],
     ret |-> option # None]

\* player.get_piece(&board)
GetPiece ==
    /\ query = NoQuery
    /\ \E option \in get_piece(players[1], items) :
          query' = Answer("get_piece", option)
    /\ UNCHANGED << codec, boardVars, bridgeVars, gameVars, fill >>

\* player.get_move(&board, 0)
GetMove ==
    /\ query = NoQuery
    /\ \E option \in get_move(players[1], items, 0) :
          query' = Answer("get_move", option)
    /\ UNCHANGED << codec, boardVars, bridgeVars, gameVars, fill >>

NextPlayer ==
    \/ \E piece \in 0..15, index \in 0..15 : Place(piece, index)
    \/ GetPiece
    \/ GetMove

SpecPlayer == InitPlayer /\ [][NextPlayer]_vars

\* ------------------------------------------------------------- the game
GameError == [kind |-> "Error", player |-> 0]
GameDraw == [kind |-> "Draw", player |-> 0]
GameWin(p) == [kind |-> "Win", player |-> p]
Running == [kind |-> "running", player |-> 0]

\* The games played: every pairing of the strategies, and the game of two
\* ScriptPlayers.
Games == [1..2 -> Strategies] \cup {<< "ScriptPlayer", "ScriptPlayer" >>}

\* QuartoGame::new(player1, player2), and the call of play_without_call.
InitGame ==
    /\ BoardIdle
    /\ BridgeIdle
    /\ CodecIdle
    /\ FillIdle
    /\ players \in Games
    /\ current = 0
    /\ result = Running

next_player_stay(c) == c

\* QuartoGame::next_player
next_player(c) == 1 - c

\* One iteration of the loop of play_without_call: the current player
\* chooses the piece, the turn passes, the other player chooses the cell,
\* and the piece is put there; the value put_piece returns is dropped. A
\* None from either player returns GameResult::Error. The calls are counted
\* up to MaxTurns.
Turn ==
    /\ result = Running
    /\ ~ panicked
    /\ ~ game_over(items)
    /\ \E piece \in player_get_piece(players[current + 1], items) :
          IF piece = None
          THEN /\ result' = GameError
               /\ UNCHANGED << current, boardVars >>
          ELSE /\ current' = next_player(current)
               /\ \E player_move \in player_get_move(players[current' + 1],
                                                       items, piece[1]) :
                     IF player_move = None
                     THEN /\ result' = GameError
                          /\ UNCHANGED boardVars
                     ELSE /\ PutPieceOn(piece[1], player_move[1])
                          /\ calls' = IF calls < MaxTurns THEN calls + 1
                                                          ELSE calls
                          /\ UNCHANGED result
    /\ UNCHANGED << players, bridgeVars, codecVars, fill >>

\* The end of play_without_call once the loop is left.
Return ==
    /\ result = Running
    /\ ~ panicked
    /\ game_over(items)
    /\ result' = IF has_winner(items) THEN GameWin(current) ELSE GameDraw
    /\ UNCHANGED << players, current, boardVars, bridgeVars, codecVars, fill >>

reset_keep_board(b, c) == [board |-> b, current |-> 0]

\* QuartoGame::reset: a new board, and the first player's turn.
reset(b, c) == [board |-> new, current |-> 0]

WasReset == [kind |-> "reset", player |-> 0]

\* game.reset() once play_without_call has returned (it borrows the game
\* mutably while it runs): after a win or a draw, or on the board of an
\* unfinished game after GameResult::Error.
Reset ==
    /\ result.kind \in {"Error", "Draw", "Win"}
    /\ items' = reset(items, current).board
    /\ current' = reset(items, current).current
    /\ result' = WasReset
    /\ UNCHANGED << players, overflow_checks, panicked, calls, last,
                    bridgeVars, codecVars, fill >>

NextGame == Turn \/ Return \/ Reset

SpecGame == InitGame /\ [][NextGame]_vars

\* The games in which a DeterministicStrategy player takes part.
InitGameDeterministic ==
    /\ InitGame
    /\ \E p \in 1..2 : players[p] = "DeterministicStrategy"

\* play_without_call runs on its caller's thread until it returns: a step
\* that can be taken is taken.
SpecGameFair ==
    InitGameDeterministic /\ [][NextGame]_vars /\ WF_vars(NextGame)

\* The games of two players that never answer None.
InitGameSome ==
    /\ BoardIdle
    /\ BridgeIdle
    /\ CodecIdle
    /\ FillIdle
    /\ players \in [1..2 -> SomePlayers]
    /\ current = 0
    /\ result = Running

SpecGameSome == InitGameSome /\ [][NextGame]_vars /\ WF_vars(NextGame)

\* ------------------------------------------------------------ properties
\* The cell of byte k holds a piece: its existence bit is set.
Occupied(b, k) == b[k] % 2 = 1

\* Some occupied cell carries exactly the four attribute bits of the piece.
OnBoard(b, piece) == \E k \in Bytes : Occupied(b, k) /\ b[k] \div 16 = piece

\* The same piece occurs at two positions of the list.
HasDup(list) ==
    \E i, j \in 1..Len(list) : i < j /\ list[i] # None /\ list[i] = list[j]

\* C1: a put_piece call on a cell whose existence bit is set returns false and
\* leaves the board unchanged, for every piece 0..15.
C1_OccupiedCellRejected ==
    [][(/\ calls' = calls + 1
        /\ last'.piece <= 15
        /\ last'.index <= 15
        /\ Occupied(items, 15 - last'.index))
       => (last'.ret = "false" /\ items' = items)]_vars

\* C2: valid_piece(piece) is false if and only if some occupied cell carries
\* exactly the four attribute bits of the piece, for every piece 0..15.
C2_ValidPieceIffAbsent ==
    \A piece \in 0..15 : valid_piece(items, piece) = ~ OnBoard(items, piece)

\* C3: no two occupied cells carry the same four attribute bits.
C3_PiecesUnique ==
    \A k1, k2 \in Bytes :
        (k1 # k2 /\ Occupied(items, k1) /\ Occupied(items, k2))
            => items[k1] \div 16 # items[k2] \div 16

\* C4: after put_piece(p, i) succeeded, put_piece(p, j) with j # i returns
\* false and leaves the board as it was after the first placement.
C4_SecondPlacementRejected ==
    last.ret = "true" =>
        \A j \in (0..15) \ {last.index} :
            LET r == put_piece(items, last.piece, j)
            IN  ~ r.ret /\ r.items = items

\* C5: a put_piece call with index > 15 or piece > 15 returns false and
\* leaves the board unchanged, whatever the board and the other argument.
C5_OutOfRangeRejected ==
    [][(calls' = calls + 1 /\ (last'.index > 15 \/ last'.piece > 15))
       => (last'.ret = "false" /\ items' = items)]_vars

\* C5 witness: on a board that holds a piece, a call with an available piece
\* and an index above 15 was rejected.
C5_Witness ==
    /\ last.ret = "false"
    /\ last.index > 15
    /\ last.piece <= 15
    /\ valid_piece(items, last.piece)
    /\ items # new

\* C6: put_piece(piece, index) returns true whenever index <= 15, piece <= 15,
\* the cell at index is empty and no occupied cell holds the piece.
C6_LegalPlacementAccepted ==
    \A piece \in 0..15, index \in 0..15 :
        (is_empty(items, index) /\ ~ OnBoard(items, piece))
            => put_piece(items, piece, index).ret

\* C7: bits 1, 2 and 3 of each of the 16 cell bytes are 0.
C7_ReservedBitsZero ==
    \A k \in Bytes : BitAnd(items[k], 14) = 0

\* C8: from_printable(from_board(b)) is Ok with a board equal to b, for every
\* board b the put_piece calls reach.
C8_RoundTripBoard ==
    from_printable(from_board(items)) = [ok |-> TRUE, items |-> items]

\* C9: for a list of 16 optional pieces without a repeated piece,
\* from_printable returns Ok(b) and from_board(b) has the same 16 entries.
C9_RoundTripList ==
    (Len(vec) = BOARD_LEN /\ ~ HasDup(vec)) =>
        /\ stage \in {"converted", "back"} => conv.ok
        /\ stage = "back" => back = vec

\* C10: from_list returns None for every list whose length is not 16, and
\* from_printable returns Err for every list of 16 entries in which a piece
\* occurs at two positions; neither yields a board.
C10_MalformedRejected ==
    /\ (Len(vec) # BOARD_LEN /\ stage # "input")
            => (pboard = None /\ stage = "listed")
    /\ (HasDup(vec) /\ stage \notin {"input", "listed"})
            => (~ conv.ok /\ stage = "converted")

\* C10 witness: from_printable returned Err for a list of 16 entries with a
\* repeated piece.
C10_Witness ==
    /\ stage = "converted"
    /\ Len(vec) = BOARD_LEN
    /\ HasDup(vec)
    /\ ~ conv.ok

\* Bit n of the byte x is set.
Bit(x, n) == (x \div (2 ^ n)) % 2 = 1

\* C11: for each of the 16 pieces p, from_u8 of the byte with bit 0 set and
\* to_number(p) in bits 4..7 returns Some(p).
C11_DecodeEncode ==
    (codec.stage = "decoded" /\ codec.piece # None)
        => codec.decoded = codec.piece

\* C11 witness: a piece with hole and dark set and square and high clear
\* went through to_number, the cell byte and from_u8.
C11_Witness ==
    /\ codec.stage = "decoded"
    /\ codec.piece = Some([hole |-> TRUE, square |-> FALSE, high |-> FALSE,
                           dark |-> TRUE])
    /\ codec.byte = 9 * 16 + 1

\* The list of 16 entries with Some(p) at cell index and None elsewhere.
OnlyAt(p, index) == [n \in 1..BOARD_LEN |-> IF n = index + 1 THEN Some(p) ELSE None]

\* C12: to_number maps the 16 pieces to 16 distinct values in 0..15, and for
\* every piece p and index i in 0..15, put_piece(p.to_number(), i) on the
\* empty board succeeds and from_board of the result has Some(p) at
\* position i and None at the other 15.
C12_NumberMatchesLayout ==
    /\ codec.stage \in {"number", "placed"} =>
            /\ codec.number \in 0..15
            /\ \A q \in Piece :
                    to_number(q) = codec.number => Some(q) = codec.piece
    /\ codec.stage = "placed" =>
            /\ last.ret = "true"
            /\ from_board(items) = OnlyAt(codec.piece[1], last.index)

\* C12 witness: the piece with number 6 was placed at cell 13.
C12_Witness ==
    /\ codec.stage = "placed"
    /\ codec.number = 6
    /\ last.index = 13
    /\ last.ret = "true"

\* C13: for every byte 0..255, from_u8 returns None exactly when bit 0 is 0,
\* and otherwise the piece with hole = bit 7, square = bit 6, high = bit 5,
\* dark = bit 4, whatever bits 1..3 are.
C13_FromU8Bits ==
    codec.stage = "decoded" =>
        IF ~ Bit(codec.byte, 0) THEN codec.decoded = None
        ELSE codec.decoded = Some([hole   |-> Bit(codec.byte, 7),
                                   square |-> Bit(codec.byte, 6),
                                   high   |-> Bit(codec.byte, 5),
                                   dark   |-> Bit(codec.byte, 4)])

\* C13 witness: a byte with bit 0 and the bits 1 and 3 set was decoded into
\* a piece.
C13_Witness ==
    /\ codec.stage = "decoded"
    /\ codec.piece = None
    /\ codec.byte = 128 + 32 + 8 + 2 + 1
    /\ codec.decoded # None

\* C14: is_empty(index) is true exactly when index <= 15 and the existence
\* bit of cell index, bit (15 - index) * 8 of items, is 0; it is false for
\* every index above 15.
C14_IsEmptyExistenceBit ==
    query.op = "is_empty" =>
        query.ret = (query.arg <= 15 /\ ~ Bit(items[15 - query.arg], 0))

\* C14 witness: is_empty answered false for the cell that holds the piece,
\* whose mirror cell is empty.
C14_Witness ==
    /\ query.op = "is_empty"
    /\ query.arg = last.index
    /\ last.ret = "true"
    /\ last.index = 2
    /\ query.ret = FALSE

\* The attribute bit t (0 dark, 1 high, 2 square, 3 hole) of cell c.
Attr(b, c, t) == Bit(b[15 - c], 4 + t)

\* Every cell of the line holds a piece.
Complete(b, line) == \A c \in line : Occupied(b, 15 - c)

\* The line is complete and its four pieces agree on some attribute.
Agreeing(b, line) ==
    /\ Complete(b, line)
    /\ \E t \in 0..3 : \A c, d \in line : Attr(b, c, t) = Attr(b, d, t)

\* C15: on a board built from distinct pieces, winning_row(r),
\* winning_column(c) and winning_diagonal() are true exactly when the line
\* (either diagonal for winning_diagonal) is complete and its four pieces
\* agree on an attribute; an incomplete line never wins, and winning_row and
\* winning_column are false for an argument above 3.
C15_LineWinsIffAgreeing ==
    /\ query.op = "winning_row" =>
            query.ret = (query.arg <= 3 /\ Agreeing(items, RowCells(query.arg)))
    /\ query.op = "winning_column" =>
            query.ret = (query.arg <= 3 /\ Agreeing(items, ColumnCells(query.arg)))
    /\ query.op = "winning_diagonal" =>
            query.ret = (Agreeing(items, DownCells) \/ Agreeing(items, UpCells))

\* C15 witness: winning_column(2) answered true for a complete column whose
\* pieces agree on one attribute only.
C15_Witness ==
    /\ query = [op |-> "winning_column", arg |-> 2, ret |-> TRUE]
    /\ Cardinality({t \in 0..3 : \A c, d \in ColumnCells(2) :
                        Attr(items, c, t) = Attr(items, d, t)}) = 1

\* C16: has_winner() is true exactly when at least one of the 10 lines is
\* complete and agreeing.
C16_HasWinnerIffLine ==
    query.op = "has_winner" =>
        query.ret = (\E line \in Lines : Agreeing(items, line))

\* C16 witness: has_winner() answered true for a board whose only agreeing
\* line is the up diagonal.
C16_Witness ==
    /\ query = [op |-> "has_winner", arg |-> 0, ret |-> TRUE]
    /\ \A line \in Lines : Agreeing(items, line) = (line = UpCells)

\* C18: on the empty board board_full(), has_winner() and game_over() are
\* false, and no row, column or diagonal is complete or winning.
C18_EmptyBoardQuiet ==
    items = new =>
        /\ \A line \in Lines : ~ Complete(items, line)
        /\ query.op \in {"winning_row", "winning_column", "winning_diagonal",
                          "has_winner", "board_full", "game_over"}
                => ~ query.ret

\* C17: from the empty board, for every assignment of the 16 distinct pieces
\* to the 16 cells and every order of placing them, all 16 put_piece calls
\* return true and board_full() is true afterwards; board_full() is false
\* whenever the existence bit of some cell is 0.
C17_FillSucceeds ==
    /\ last.ret \in {"none", "true"}
    /\ query.op = "board_full" =>
            /\ query.ret = (\A k \in Bytes : Occupied(items, k))
            /\ fill.pieces = {} => query.ret

\* C19: play_without_call on a new game with two DeterministicStrategy
\* players terminates and returns Win or Draw, never Error.
C19_DeterministicGameEnds ==
    (players = << "DeterministicStrategy", "DeterministicStrategy" >>)
        => ([](result.kind # "Error") /\ <>(result.kind \in {"Win", "Draw"}))

\* C19 witness: the game of two DeterministicStrategy players returned a
\* result after pieces were placed.
C19_Witness ==
    /\ players = << "DeterministicStrategy", "DeterministicStrategy" >>
    /\ result.kind \in {"Win", "Draw"}
    /\ calls > 0
    /\ has_winner(items) \/ board_full(items)

\* C20: play_without_call on a new game with two DumbStrategy players never
\* returns Error, whatever the random choices: while the game is not over,
\* a piece to give and a cell to place it exist.
C20_DumbGameNoError ==
    (players = << "DumbStrategy", "DumbStrategy" >>) =>
        /\ result.kind # "Error"
        /\ (result = Running /\ ~ game_over(items)) =>
                (valid_pieces(items) # << >> /\ empty_spaces(items) # << >>)

\* C22: after QuartoGame::reset, called on the board of an unfinished game
\* or of a finished one, the board is empty (every cell is_empty) and
\* current is 0, as in a newly constructed game.
C22_ResetIsNew ==
    result = WasReset =>
        /\ items = new
        /\ current = 0
        /\ \A i \in 0..15 : is_empty(items, i)

\* A game that placed pieces has been reset.
C22_Witness ==
    /\ result = WasReset
    /\ calls > 0
    /\ last.ret = "true"
    /\ items = new
    /\ current = 0

\* C23: once game_over() is true it stays true over every further put_piece
\* call, accepted or rejected, and a cell that holds a piece keeps its byte:
\* it neither becomes empty nor changes its piece.
C23_GameOverStays ==
    [][/\ game_over(items) => game_over(items')
       /\ \A k \in Bytes : Occupied(items, k) => items'[k] = items[k]]_vars

\* C24: a put_piece(piece, index) that returns true changes only the byte of
\* cell index: before the call its existence bit is 0, after it the byte
\* is (piece << 4) | 1, and the other 15 bytes are as they were.
C24_OnlyCellChanges ==
    [][(calls' = calls + 1 /\ last'.ret = "true") =>
          /\ ~ Occupied(items, LAST_CELL - last'.index)
          /\ items' = [items EXCEPT ![LAST_CELL - last'.index] =
                                         cell_byte(last'.piece)]]_vars

\* C25: when play_without_call returns Win(p) the board has a winning line
\* and p is the player who placed the last piece (player 1 places the first
\* piece, and the players take turns); it returns Draw only on a full board
\* without a winning line.
C25_ResultMatchesBoard ==
    /\ result.kind = "Win" =>
          /\ has_winner(items)
          /\ last.ret = "true"
          /\ result.player = calls % 2
    /\ result.kind = "Draw" => (board_full(items) /\ ~ has_winner(items))

\* A game has returned Draw after sixteen placements.
C25_Witness ==
    /\ result.kind = "Draw"
    /\ calls = BOARD_LEN
    /\ board_full(items)

\* C26: a game of two players that never answer None comes to its end:
\* play_without_call returns (or panics).
C26_GameEnds == <>(result.kind # "running" \/ panicked)

\* C21: on every board reached by successful placements that holds fewer
\* than 16 pieces, get_piece of each strategy returns Some(p) with p not on
\* the board and get_move returns Some(i) with cell i empty; on a board
\* that holds all 16 pieces both return None.
C21_StrategiesAnswer ==
    /\ query.op = "get_piece" =>
            IF placed(items) < BOARD_LEN
            THEN query.ret /\ query.arg <= 15 /\ ~ OnBoard(items, query.arg)
            ELSE ~ query.ret
    /\ query.op = "get_move" =>
            IF placed(items) < BOARD_LEN
            THEN query.ret /\ query.arg <= 15
                 /\ ~ Occupied(items, 15 - query.arg)
            ELSE ~ query.ret

\* C18 witness: game_over() answered false on the empty board.
C18_Witness ==
    /\ items = new
    /\ query = [op |-> "game_over", arg |-> 0, ret |-> FALSE]

====
